---- MODULE Spec2Model ----
(***************************************************************************)
(* ExpenseTracker (src/main.py): three tool handlers, add_expense,         *)
(* list_expenses and summarize, each of which opens its own SQLite         *)
(* connection on DB_PATH, runs one statement and closes the connection;    *)
(* init_db creates the expenses table once at import time.                 *)
(*                                                                         *)
(* The SQLite engine is modelled by what it does for the statements the    *)
(* source issues: a database is its set of tables, the rows of expenses    *)
(* and the AUTOINCREMENT counter; the path ":memory:" opens a NEW, empty,  *)
(* private database on every connect and drops it on close, any other      *)
(* path names one database that every connection shares.                   *)
(*                                                                         *)
(* Two specifications run the same handlers:                               *)
(*   Spec     - the program as written: dbPath = DB_PATH = ":memory:", so   *)
(*              no connection ever sees what another one wrote;             *)
(*   SpecFile - the storage the specification describes, one store that     *)
(*              every call shares for the life of the process: dbPath       *)
(*              names a database file. The program as written reaches none  *)
(*              of these states; SpecFile exercises what the statements     *)
(*              compute on a populated table, which Spec never does.        *)
(***************************************************************************)
EXTENDS Integers, Sequences, FiniteSets, TLC

VARIABLES phase, dbPath, disk, last, ids

vars == <<phase, dbPath, disk, last, ids>>

---------------------------------------------------------------------------
(* Bounds and input domains *)

\* the number of rows the shared database may hold before add_expense is no longer called
MaxRows == 2

\* Python's None (an argument the caller left null)
None == "None"

\* the path of line 9
DB_PATH == ":memory:"

\* a path naming a database file, which connections share
FilePath == "expenses.db"

\* an optional argument the caller left out
Omitted == "Omitted"

\* the argument lists add_expense is called with; a date is text, compared as
\* text, and stands here as its digits: "1" < "10" < "2"
ExpenseInputs ==
    { [date |-> <<1>>,    amount |-> 10, category |-> "Food",   subcategory |-> Omitted, note |-> Omitted],
      [date |-> <<1, 0>>, amount |-> 25, category |-> "Travel", subcategory |-> Omitted, note |-> Omitted],
      [date |-> <<1, 0>>, amount |-> 10, category |-> "Food",   subcategory |-> "lunch", note |-> "team"],
      [date |-> <<2>>,    amount |-> 40, category |-> "Travel", subcategory |-> "taxi",  note |-> Omitted],
      [date |-> <<2>>,    amount |-> 10, category |-> None,     subcategory |-> Omitted, note |-> Omitted] }

\* the (start_date, end_date) pairs list_expenses and summarize are called with
Ranges ==
    { <<<<1>>, <<2>>>>, <<<<1, 0>>, <<1, 0>>>>, <<<<1, 0>>, <<2>>>>, <<<<2>>, <<1>>>> }

\* the category filters summarize is called with
Filters == {None, "", "Food"}

\* where a storage failure strikes a call (none: no failure)
FaultsWrite == {"none", "connect", "execute", "commit", "close"}
FaultsRead == {"none", "connect", "execute", "fetch", "close"}

---------------------------------------------------------------------------
(* SQLite: values and comparison *)

\* text comparison of the BINARY collation: bytewise, a proper prefix sorts first
RECURSIVE TextLess(_, _)
TextLess(a, b) ==
    IF Len(b) = 0 THEN FALSE
    ELSE IF Len(a) = 0 THEN TRUE
    ELSE IF Head(a) # Head(b) THEN Head(a) < Head(b)
    ELSE TextLess(Tail(a), Tail(b))

TextLeq(a, b) == a = b \/ TextLess(a, b)

\* x BETWEEN lo AND hi
Between(x, lo, hi) == TextLeq(lo, x) /\ TextLeq(x, hi)

\* a database: its tables, the rows of expenses in insertion order, sqlite_sequence
EmptyDb == [tables |-> {}, rows |-> <<>>, seq |-> 0]

\* sqlite3.connect(path): ":memory:" is a new empty private database every time
Connect(path, shared) == IF path = ":memory:" THEN EmptyDb ELSE shared

\* closing a connection after a commit: a private in-memory database is dropped
Persist(path, shared, db) == IF path = ":memory:" THEN shared ELSE db

\* CREATE TABLE IF NOT EXISTS expenses(...)
CreateTable(db) == [db EXCEPT !.tables = @ \cup {"expenses"}]

RECURSIVE MaxId(_)
MaxId(rows) ==
    IF rows = <<>> THEN 0
    ELSE LET m == MaxId(Tail(rows)) IN IF Head(rows).id > m THEN Head(rows).id ELSE m

\* mutant: the largest rowid in use is handed out again
NextRowIdReused(db) == IF db.rows = <<>> THEN 1 ELSE MaxId(db.rows)

\* INTEGER PRIMARY KEY AUTOINCREMENT: one more than the largest rowid ever used
NextRowId(db) == (IF db.seq > MaxId(db.rows) THEN db.seq ELSE MaxId(db.rows)) + 1

\* INSERT INTO expenses(date, amount, category, subcategory, note) VALUES (?,?,?,?,?)
InsertStmt(db, date, amount, category, subcategory, note) ==
    IF "expenses" \notin db.tables
    THEN [ok |-> FALSE, exc |-> "no such table: expenses", db |-> db, lastrowid |-> 0]
    \* NOT NULL (date and amount carry it too; None is only ever passed for category)
    ELSE IF category = None
    THEN [ok |-> FALSE, exc |-> "NOT NULL constraint failed", db |-> db, lastrowid |-> 0]
    ELSE LET id == NextRowId(db)
             row == [id |-> id, date |-> date, amount |-> amount, category |-> category,
                     subcategory |-> subcategory, note |-> note]
         IN [ok |-> TRUE, exc |-> "",
             db |-> [db EXCEPT !.rows = Append(@, row), !.seq = id],
             lastrowid |-> id]

RowSet(db) == {db.rows[i] : i \in 1..Len(db.rows)}

\* mutant: ORDER BY date DESC, id ASC
ListBeforeIdAscending(a, b) == TextLess(b.date, a.date) \/ (a.date = b.date /\ a.id < b.id)

\* ORDER BY date DESC, id DESC: a sorts before b
ListBefore(a, b) == TextLess(b.date, a.date) \/ (a.date = b.date /\ a.id > b.id)

RECURSIVE OrderRows(_)
OrderRows(S) ==
    IF S = {} THEN <<>>
    ELSE LET first == CHOOSE a \in S : \A b \in S \ {a} : ListBefore(a, b)
         IN <<first>> \o OrderRows(S \ {first})

\* SELECT id, date, amount, category, subcategory, note FROM expenses
\* WHERE date BETWEEN ? AND ? ORDER BY date DESC, id DESC
SelectList(db, start_date, end_date) ==
    IF "expenses" \notin db.tables
    THEN [ok |-> FALSE, exc |-> "no such table: expenses", rows |-> <<>>]
    ELSE [ok |-> TRUE, exc |-> "",
          rows |-> OrderRows({r \in RowSet(db) : Between(r.date, start_date, end_date)})]

RECURSIVE SumAmount(_)
SumAmount(S) ==
    IF S = {} THEN 0
    ELSE LET r == CHOOSE x \in S : TRUE IN r.amount + SumAmount(S \ {r})

\* Python truth value of the category argument: None and "" are false
Truthy(category) == category # None /\ category # ""

\* the rows the WHERE clause built at lines 80-89 selects
SummarizeWhere(db, start_date, end_date, category) ==
    {r \in RowSet(db) : /\ Between(r.date, start_date, end_date)
                        /\ (Truthy(category) => r.category = category)}

\* GROUP BY category with SUM(amount) AS total_amount, COUNT(*) AS count
GroupByCategory(S) ==
    { [category |-> k,
       total_amount |-> SumAmount({r \in S : r.category = k}),
       count |-> Cardinality({r \in S : r.category = k})] : k \in {r.category : r \in S} }

\* ORDER BY total_amount DESC: every order of the groups the clause allows
\* (groups with equal totals come in an order SQLite does not define)
OrderByTotal(G) ==
    {q \in [1..Cardinality(G) -> G] :
        /\ \A i, j \in 1..Cardinality(G) : i # j => q[i] # q[j]
        /\ \A i, j \in 1..Cardinality(G) : i < j => q[i].total_amount >= q[j].total_amount}

\* the summarize statement: the results it may produce
SelectSummary(db, start_date, end_date, category) ==
    IF "expenses" \notin db.tables
    THEN {[ok |-> FALSE, exc |-> "no such table: expenses", rows |-> <<>>]}
    ELSE {[ok |-> TRUE, exc |-> "", rows |-> q] :
            q \in OrderByTotal(GroupByCategory(SummarizeWhere(db, start_date, end_date, category)))}

---------------------------------------------------------------------------
(* The values the handlers return *)

\* the exception a failing connection, statement, commit, fetch or close raises
StorageFailure == "storage failure"

\* {"status": "success", "id": cur.lastrowid, "message": "Expense added successfully"}
Success(id) ==
    [raised |-> FALSE, status |-> "success", id |-> id,
     message |-> <<"Expense added successfully">>, rows |-> <<>>]

\* [dict(zip(cols, r)) for r in rows]
RowsResult(rows) ==
    [raised |-> FALSE, status |-> "rows", id |-> 0, message |-> <<>>, rows |-> rows]

\* {"status": "error", "message": prefix + str(e)}
ErrorResult(prefix, exc) ==
    [raised |-> FALSE, status |-> "error", id |-> 0, message |-> <<prefix, exc>>, rows |-> <<>>]

\* an exception leaving a handler (no except clause of the source produces it)
Raised(exc) ==
    [raised |-> TRUE, status |-> "raised", id |-> 0, message |-> <<exc>>, rows |-> <<>>]

\* the except clauses of the three handlers
AddCaught(exc) == ErrorResult("Database error: ", exc)

\* mutant: the except clause of list_expenses re-raises
ListReraise(exc) == Raised(exc)

ListCaught(exc) == ErrorResult("Error listing expenses: ", exc)

SummarizeCaught(exc) == ErrorResult("Error summarizing expenses: ", exc)

\* a parameter with default "": the value the handler body sees
Defaulted(arg) == IF arg = Omitted THEN "" ELSE arg

---------------------------------------------------------------------------
(* The handlers: the value returned and the shared database afterwards *)

add_expense(path, shared, in, fault) ==
    IF fault = "connect" THEN [result |-> AddCaught(StorageFailure), disk |-> shared]
    ELSE LET db == Connect(path, shared)
             cur == InsertStmt(db, in.date, in.amount, in.category,
                               Defaulted(in.subcategory), Defaulted(in.note))
         IN IF fault = "execute" THEN [result |-> AddCaught(StorageFailure), disk |-> shared]
            ELSE IF ~cur.ok THEN [result |-> AddCaught(cur.exc), disk |-> shared]
            \* a failed commit leaves the transaction open; closing rolls it back
            ELSE IF fault = "commit" THEN [result |-> AddCaught(StorageFailure), disk |-> shared]
            \* the return sits inside the async with: a failing close is caught too
            ELSE IF fault = "close"
                 THEN [result |-> AddCaught(StorageFailure), disk |-> Persist(path, shared, cur.db)]
            ELSE [result |-> Success(cur.lastrowid), disk |-> Persist(path, shared, cur.db)]

list_expenses(path, shared, start_date, end_date, fault) ==
    IF fault = "connect" THEN ListCaught(StorageFailure)
    ELSE LET cur == SelectList(Connect(path, shared), start_date, end_date)
         IN IF fault = "execute" THEN ListCaught(StorageFailure)
            ELSE IF ~cur.ok THEN ListCaught(cur.exc)
            ELSE IF fault \in {"fetch", "close"} THEN ListCaught(StorageFailure)
            ELSE RowsResult(cur.rows)

summarize(path, shared, start_date, end_date, category, fault) ==
    IF fault = "connect" THEN {SummarizeCaught(StorageFailure)}
    ELSE { IF fault = "execute" THEN SummarizeCaught(StorageFailure)
           ELSE IF ~cur.ok THEN SummarizeCaught(cur.exc)
           ELSE IF fault \in {"fetch", "close"} THEN SummarizeCaught(StorageFailure)
           ELSE RowsResult(cur.rows) :
             cur \in SelectSummary(Connect(path, shared), start_date, end_date, category) }

\* init_db: connect, PRAGMA journal_mode=WAL, CREATE TABLE IF NOT EXISTS, commit, close
init_db(path, shared) == Persist(path, shared, CreateTable(Connect(path, shared)))

---------------------------------------------------------------------------
(* The state machine *)

NoCall == [op |-> "none"]

InitVars ==
    /\ phase = "boot"
    /\ disk = EmptyDb
    /\ last = NoCall
    /\ ids = <<>>

Init == dbPath = DB_PATH /\ InitVars

InitFile == dbPath = FilePath /\ InitVars

\* asyncio.run(init_db()) at import: unguarded, a failure ends the process
InitDb ==
    /\ phase = "boot"
    /\ \E failed \in BOOLEAN :
          IF failed
          THEN phase' = "failed" /\ disk' = disk
          ELSE phase' = "serving" /\ disk' = init_db(dbPath, disk)
    /\ UNCHANGED <<dbPath, last, ids>>

AddExpense ==
    /\ phase = "serving"
    /\ Len(disk.rows) < MaxRows
    /\ \E in \in ExpenseInputs, fault \in FaultsWrite :
          LET out == add_expense(dbPath, disk, in, fault)
          IN /\ disk' = out.disk
             /\ last' = [op |-> "add_expense", in |-> in, fault |-> fault, result |-> out.result]
             /\ ids' = IF out.result.status = "success" THEN Append(ids, out.result.id) ELSE ids
    /\ UNCHANGED <<phase, dbPath>>

ListExpenses ==
    /\ phase = "serving"
    /\ \E range \in Ranges, fault \in FaultsRead :
          last' = [op |-> "list_expenses", start_date |-> range[1], end_date |-> range[2],
                   fault |-> fault,
                   result |-> list_expenses(dbPath, disk, range[1], range[2], fault)]
    /\ UNCHANGED <<phase, dbPath, disk, ids>>

Summarize ==
    /\ phase = "serving"
    /\ \E range \in Ranges, category \in Filters, fault \in FaultsRead :
          \E result \in summarize(dbPath, disk, range[1], range[2], category, fault) :
             last' = [op |-> "summarize", start_date |-> range[1], end_date |-> range[2],
                      category |-> category, fault |-> fault, result |-> result]
    /\ UNCHANGED <<phase, dbPath, disk, ids>>

Next == InitDb \/ AddExpense \/ ListExpenses \/ Summarize

Spec == Init /\ [][Next]_vars

SpecFile == InitFile /\ [][Next]_vars

---------------------------------------------------------------------------
(* Reading the last call *)

Called(op) == last.op = op

\* the last call ran into no storage failure from outside
Unfaulted(op) == last.op = op /\ last.fault = "none"

\* the stored records whose date lies in the inclusive range
InRange(start_date, end_date) ==
    {r \in RowSet(disk) : TextLeq(start_date, r.date) /\ TextLeq(r.date, end_date)}

ResultRows == {last.result.rows[i] : i \in 1..Len(last.result.rows)}

\* the sum of the total_amount values of a sequence of groups
RECURSIVE SumTotals(_)
SumTotals(groups) ==
    IF groups = <<>> THEN 0 ELSE Head(groups).total_amount + SumTotals(Tail(groups))

---------------------------------------------------------------------------
(* Claims *)

\* C1: an add_expense on a store holding no other record, followed by a
\* list_expenses whose range covers the date, returns exactly one record whose
\* date, amount, category, subcategory and note are the inputs, subcategory and
\* note being "" when they were omitted.
C1_RoundTrip ==
    [][ ( /\ Unfaulted("add_expense")
          /\ last.in.category # None
          /\ Len(disk.rows) <= 1
          /\ last'.op = "list_expenses"
          /\ last'.fault = "none"
          /\ TextLeq(last'.start_date, last.in.date)
          /\ TextLeq(last.in.date, last'.end_date) )
        => ( /\ last'.result.status = "rows"
             /\ Len(last'.result.rows) = 1
             /\ last'.result.rows[1].date = last.in.date
             /\ last'.result.rows[1].amount = last.in.amount
             /\ last'.result.rows[1].category = last.in.category
             /\ last'.result.rows[1].subcategory =
                   (IF last.in.subcategory = Omitted THEN "" ELSE last.in.subcategory)
             /\ last'.result.rows[1].note =
                   (IF last.in.note = Omitted THEN "" ELSE last.in.note) ) ]_vars

\* C2: once init_db has completed, the database a new connection on the path
\* sees contains the expenses table.
C2_TableVisible ==
    phase = "serving" => "expenses" \in Connect(dbPath, disk).tables

\* C3: no call raises to the caller: every call returns a success mapping, a
\* sequence of records or an error mapping, and a call struck by a storage
\* failure returns status "error" with a message.
C3_NeverRaises ==
    ~Called("none") =>
        /\ ~last.result.raised
        /\ last.result.status \in {"success", "rows", "error"}
        /\ last.fault # "none" =>
              /\ last.result.status = "error"
              /\ Len(last.result.message) = 2
              /\ last.result.message[2] # ""

\* a list_expenses call whose connection could not be opened returned the error mapping
C3_Witness ==
    /\ Called("list_expenses")
    /\ last.fault = "connect"
    /\ last.result.status = "error"
    /\ last.result.message = <<"Error listing expenses: ", StorageFailure>>

C5_ListExact ==
    Unfaulted("list_expenses") =>
        /\ last.result.status = "rows"
        /\ ResultRows = InRange(last.start_date, last.end_date)
        /\ Len(last.result.rows) = Cardinality(ResultRows)

\* C6: a list_expenses or summarize call whose range matches no stored record
\* returns the empty sequence and not an error mapping.
C6_EmptyNotError ==
    ( /\ Unfaulted("list_expenses") \/ Unfaulted("summarize")
      /\ InRange(last.start_date, last.end_date) = {} )
    => last.result = RowsResult(<<>>)

C8_SummarizeTotals ==
    (Unfaulted("summarize") /\ last.category = None) =>
        LET M == InRange(last.start_date, last.end_date)
        IN /\ last.result.status = "rows"
           /\ {g.category : g \in ResultRows} = {r.category : r \in M}
           /\ Len(last.result.rows) = Cardinality({r.category : r \in M})
           /\ \A g \in ResultRows :
                 /\ g.count = Cardinality({r \in M : r.category = g.category})
                 /\ g.total_amount = SumAmount({r \in M : r.category = g.category})
           /\ SumTotals(last.result.rows) = SumAmount(M)

====
